---------------------------- MODULE Spec2Model ----------------------------
(***************************************************************************)
(* A model of the lifecalendar wallpaper generator: the composer           *)
(* generate_wallpaper (lib/wallpaper.py), the goal renderer draw_goal and  *)
(* draw_progress_bar, the font lookup get_font, and the post-effect        *)
(* pipeline apply_all_effects with add_chromatic_aberration at pixel level *)
(* (lib/effects.py).                                                       *)
(*                                                                         *)
(* A canvas of the composer is modelled by its size, its mode and the      *)
(* sequence of layers painted onto it (its content as a term): two         *)
(* canvases with the same term hold the same pixels.  The chromatic        *)
(* aberration is modelled pixel by pixel on small images.                  *)
(*                                                                         *)
(* Pillow is not part of the repository.  Two of its checks depend on the  *)
(* installed version (Image.crop with right < left, and                    *)
(* ImageDraw.rounded_rectangle with x1 < x0, raise ValueError in recent    *)
(* versions and do not in older ones): the variable strict is the build's  *)
(* choice, made once in Init.                                              *)
(***************************************************************************)
EXTENDS Integers, Sequences, FiniteSets, TLC

VARIABLES
    strict,      \* the installed Pillow rejects unordered coordinates
    \* generate_wallpaper (one call)
    cfg,         \* goals_config: [width, height, goals, output_path]
    pc,          \* position of the call in generate_wallpaper
    img,         \* the local variable img
    idx,         \* the goal loop's index i
    exc,         \* the exception the call raised ("" when none)
    trace,       \* the stages executed so far, in order
    drawn,       \* the results of the draw_goal calls made so far
    ret,         \* the returned image
    \* draw_goal called on its own
    g_in, g_out,
    \* apply_all_effects called on its own
    fx_in, fx_out,
    \* add_chromatic_aberration called on its own (pixel level)
    ca_in, ca_out,
    \* get_font called on its own
    font_in, font_out,
    \* the HTTP handler of api/generate.py (one request)
    req,          \* the request: method, headers, body, query, goals.json
    hpc,          \* position of the handler in do_GET / do_POST
    goals_config, \* the local variable goals_config
    hexc,         \* the exception caught by the handler ("" when none)
    image_data,   \* the encoded PNG ("" before img.save)
    hbuf,         \* the header lines buffered by send_response / send_header
    wire,         \* what has been written to wfile, in order
    statuses,     \* the codes passed to send_response, in order
    conn,         \* the client's connection: "open" or "broken"
    gen_calls,    \* the number of calls of generate_wallpaper
    \* the client: set_wallpaper_linux and main of client/update_wallpaper.py
    sw_env,       \* the desktop, the session and what each command does
    commands,     \* the local variable commands
    sw_pc,        \* position of the call in set_wallpaper_linux
    sw_k,         \* the number of loop iterations completed
    ran,          \* the commands passed to subprocess.run, in order
    sw_ret,       \* the value returned: "none", "True" or "False"
    args,         \* the command line of main: local, api, no_set
    env,          \* the platform and the outcome of fetching and generating
    mpc,          \* position of main
    success,      \* the local variable success
    made,         \* the functions main has called, in order
    set_ret,      \* what set_wallpaper returned: "none", "True", "False",
                  \* or "raised"
    exit_status,  \* the exit status of main (-1 while it runs)
    printed,      \* the lines printed, in order
    \* two concurrent calls of generate_wallpaper in one process
    rng_state,    \* the hidden generator of the module random: the number
                  \* of values it has produced
    canvases,     \* the Image objects of the process, by identity
    next_id,      \* the identity of the next object allocated
    gw,           \* the two calls: stage, draws left, canvas, values drawn
    \* add_glitch_strips called on its own (pixel level)
    gl_in,        \* img, num_strips, max_offset
    gl_pc,        \* position of the call
    gl_result,    \* the local variable result
    gl_strips,    \* the y_start, y_end and offset drawn so far, in order
    gl_exc,       \* the exception raised ("" when none)
    \* add_vignette called on its own (the mask)
    vg_in,        \* the size of img, and strength in hundredths
    vg_pc,        \* position of the call
    vg_i,         \* the loop variable i
    vignette      \* the mask: its size, its background value and the
                  \* ellipses drawn on it, in order

genVars  == <<cfg, pc, img, idx, exc, trace, drawn, ret>>
goalVars == <<g_in, g_out>>
fxVars   == <<fx_in, fx_out>>
caVars   == <<ca_in, ca_out>>
fontVars == <<font_in, font_out>>
httpVars == <<req, hpc, goals_config, hexc, image_data, hbuf, wire, statuses,
              conn, gen_calls>>
swVars   == <<sw_env, commands, sw_pc, sw_k, ran, sw_ret>>
mainVars == <<args, env, mpc, success, made, set_ret, exit_status>>
clientVars == <<swVars, mainVars, printed>>
concVars == <<rng_state, canvases, next_id, gw>>
glitchVars == <<gl_in, gl_pc, gl_result, gl_strips, gl_exc>>
vigVars  == <<vg_in, vg_pc, vg_i, vignette>>
extVars  == <<httpVars, clientVars, concVars, glitchVars, vigVars>>
vars     == <<strict, genVars, goalVars, fxVars, caVars, fontVars, extVars>>

-----------------------------------------------------------------------------
(* Bounds of the model *)

\* the longest goals list of a configuration
MaxGoals == 3
\* goal numbers range over -1 .. MaxVal
MaxVal == 3
\* the widest and the tallest image of the pixel-level model
MaxW == 3
MaxH == 1

(* Program constants *)

goal_start_y == 130
goal_height  == 100
goal_x       == 100
max_goal_width == 600
goal_side_margin == 200
bar_label_room == 120
bar_offset_y == 40
bar_height == 20
fill_inset == 2
default_current == 0
default_target == 100
fx_chromatic_offset == 2
glitch_margin == 30

Min(a, b) == IF a < b THEN a ELSE b

\* Python's int() of the quotient a / b for b > 0: truncation toward zero
Trunc(a, b) == IF a >= 0 THEN a \div b ELSE -((-a) \div b)

\* int(n * p / 100) as in int(height * 0.35): the floor of the exact product.
\* The float product is one less for a few n from 180 on (int(180 * 0.35) is
\* 62); the model reads the result only to tell whether it is 0 or 1.
IntPct(n, p) == (n * p) \div 100

-----------------------------------------------------------------------------
(* JSON values of a goal's fields *)

Num(n) == [t |-> "num", v |-> n]
Absent == [t |-> "absent", v |-> 0]
Str    == [t |-> "str", v |-> 0]
Null   == [t |-> "null", v |-> 0]

NumVals  == (-1) .. MaxVal
\* goal numbers beyond the small ones: 5 of 10 (the 800 x 600 scenario) and
\* 41 of 80 (a quotient that a double rounds down)
SampleVals == {5, 10, 41, 80}
JsonVals == {Num(n) : n \in NumVals \cup SampleVals} \cup {Absent, Str, Null}

\* dict.get(key, default)
DictGet(field, default) == IF field.t = "absent" THEN Num(default) ELSE field

IsNum(f) == f.t = "num"

-----------------------------------------------------------------------------
(* get_font *)

font_paths == <<"VCR_OSD_MONO.ttf", "PressStart2P.ttf",
                "DejaVuSansMono-Bold.ttf", "DejaVuSansMono.ttf">>
fallback_font_path == "DejaVuSans-Bold.ttf"
BuiltinFont == [path |-> "load_default", size |-> 0]
NoFont == [path |-> "", size |-> 0]

FontFiles == {font_paths[k] : k \in 1..Len(font_paths)} \cup {fallback_font_path}
\* a file is absent, present and loadable, or present and not a font
FileStates == {"missing", "ok", "corrupt"}
FontSizes == {18, 24, 28, 56}

\* ImageFont.truetype(path, size): OSError for a missing or unreadable file
truetype(fs, path, size) ==
    IF fs[path] = "ok"
    THEN [exc |-> "", font |-> [path |-> path, size |-> size]]
    ELSE [exc |-> "OSError", font |-> NoFont]

\* the for loop over font_paths from position k on, then the fallback
RECURSIVE font_loop(_, _, _, _)
font_loop(fs, size, k, tried) ==
    IF k <= Len(font_paths)
    THEN LET r == truetype(fs, font_paths[k], size)
             t == Append(tried, font_paths[k])
         IN IF r.exc = ""
            THEN [font |-> r.font, tried |-> t, exc |-> ""]
            ELSE font_loop(fs, size, k + 1, t)
    ELSE LET r == truetype(fs, fallback_font_path, size)
             t == Append(tried, fallback_font_path)
         IN IF r.exc = ""
            THEN [font |-> r.font, tried |-> t, exc |-> ""]
            ELSE [font |-> BuiltinFont, tried |-> Append(t, "load_default"),
                  exc |-> ""]

\* "break" in place of "continue": gives up after the first candidate
get_font_GivesUpAfterFirst(fs, size) ==
    LET r == truetype(fs, font_paths[1], size)
    IN IF r.exc = ""
       THEN [font |-> r.font, tried |-> <<font_paths[1]>>, exc |-> ""]
       ELSE font_loop(fs, size, Len(font_paths) + 1, <<font_paths[1]>>)
get_font(fs, size) == font_loop(fs, size, 1, <<>>)

-----------------------------------------------------------------------------
(* Canvases of the composer *)

NoImage == [size |-> <<0, 0>>, mode |-> "none", layers |-> <<>>]

\* Image.new('RGB', (width, height), (0, 0, 0))
NewCanvas(width, height) ==
    [size |-> <<width, height>>, mode |-> "RGB", layers |-> <<>>]

\* a stage that builds Image.new('RGBA', img.size) layers, composites them on
\* img.convert('RGBA') and returns result.convert('RGB'); or draws on img
Paint(im, layer) ==
    [size |-> im.size, mode |-> "RGB", layers |-> Append(im.layers, layer)]

draw_gradient_sky(im)     == Paint(im, "sky")
draw_sun(im)              == Paint(im, "sun")
draw_geometric_shapes(im) == Paint(im, "shapes")
draw_perspective_grid(im) == Paint(im, "grid")
draw_title(im)            == Paint(im, "title")

\* the heights of the four trees, as fractions of the canvas height
tree_height_pct == <<50, 45, 35, 38>>

\* draw_palm_tree: points is empty when trunk_height is 0, and points[-1]
\* raises IndexError
palm_tree_raises(tree_height) == (tree_height * 2) \div 3 = 0

draw_palm_trees(im) ==
    LET height == im.size[2]
        bad == {k \in 1..Len(tree_height_pct) :
                  palm_tree_raises(IntPct(height, tree_height_pct[k]))}
    IN IF bad = {}
       THEN [exc |-> "", img |-> Paint(im, "trees")]
       ELSE [exc |-> "IndexError", img |-> im]

-----------------------------------------------------------------------------
(* draw_progress_bar *)

\* progress is the quotient n / d of two integers, d > 0
Rat(n, d) == [n |-> n, d |-> d]
Zero == Rat(0, 1)

\* current / target is rounded to a double before it is multiplied.  For the
\* goal numbers and widths of the model the truncated float product differs
\* from the truncated exact product in these cases, where it is one less:
\* int(480 * (41 / 80)) is int(245.99999999999997) = 245
float_short_width == {<<480, 41, 80>>}
\* int((41 / 5) * 100) is 819 and int((41 / 10) * 100) is 409
float_short_percent == {<<41, 5>>, <<41, 10>>}

\* int(width * min(progress, 1.0)), rounded to the nearest column
progress_width_of_Rounded(width, progress) ==
    IF progress.n >= progress.d THEN width
    ELSE Trunc(2 * width * progress.n + progress.d, 2 * progress.d)
\* int(width * min(progress, 1.0))
progress_width_of(width, progress) ==
    IF progress.n >= progress.d THEN width
    ELSE Trunc(width * progress.n, progress.d)
         - (IF <<width, progress.n, progress.d>> \in float_short_width
            THEN 1 ELSE 0)

\* the columns of the lines drawn by "for i in range(progress_width)"
fill_columns(x, progress_width) ==
    {x + i + fill_inset : i \in 0 .. (progress_width - 1)}

NoBar == [exc |-> "", reached |-> FALSE, x0 |-> 0, x1 |-> 0,
          progress_width |-> 0, cols |-> {}]

draw_progress_bar(x, y, width, height, progress, st) ==
    IF st /\ (x + width < x \/ y + height < y)
    THEN \* rounded_rectangle([x, y, x + width, y + height]) rejects x1 < x0
         [exc |-> "ValueError", reached |-> TRUE, x0 |-> x, x1 |-> x + width,
          progress_width |-> 0, cols |-> {}]
    ELSE LET pw == progress_width_of(width, progress)
         IN [exc |-> "", reached |-> TRUE, x0 |-> x, x1 |-> x + width,
             progress_width |-> pw,
             cols |-> IF pw > 0 THEN fill_columns(x, pw) ELSE {}]

-----------------------------------------------------------------------------
(* draw_goal *)

bar_colors == <<"pink", "cyan", "purple", "neon_blue", "hot_pink">>

\* progress = current / target if target > 0 else 0
\* (the condition is evaluated first; a str or None operand raises TypeError)
compute_progress_DivideFirst(current, target) ==
    IF ~IsNum(current) \/ ~IsNum(target)
    THEN [exc |-> "TypeError", divided |-> TRUE, p |-> Zero]
    ELSE IF target.v = 0
    THEN [exc |-> "ZeroDivisionError", divided |-> TRUE, p |-> Zero]
    ELSE IF target.v > 0
    THEN [exc |-> "", divided |-> TRUE, p |-> Rat(current.v, target.v)]
    ELSE [exc |-> "", divided |-> TRUE, p |-> Zero]
compute_progress(current, target) ==
    IF ~IsNum(target)
    THEN [exc |-> "TypeError", divided |-> FALSE, p |-> Zero]
    ELSE IF target.v > 0
    THEN IF IsNum(current)
         THEN [exc |-> "", divided |-> TRUE, p |-> Rat(current.v, target.v)]
         ELSE [exc |-> "TypeError", divided |-> TRUE, p |-> Zero]
    ELSE [exc |-> "", divided |-> FALSE, p |-> Zero]

\* f"{current:,} / {target:,}": the ',' format raises for a str (ValueError)
\* and for None (TypeError)
stats_text_exc(current, target) ==
    IF current.t = "str" THEN "ValueError"
    ELSE IF current.t = "null" THEN "TypeError"
    ELSE IF target.t = "str" THEN "ValueError"
    ELSE IF target.t = "null" THEN "TypeError"
    ELSE ""

draw_goal(im, goal, x, y, width, index, st) ==
    LET color   == bar_colors[(index % Len(bar_colors)) + 1]
        current == DictGet(goal.current, default_current)
        target  == DictGet(goal.target, default_target)
        pr      == compute_progress(current, target)
        bar     == draw_progress_bar(x, y + bar_offset_y, width - bar_label_room,
                                     bar_height, pr.p, st)
        \* int(progress * 100)
        percent == Trunc(100 * pr.p.n, pr.p.d)
                   - (IF <<pr.p.n, pr.p.d>> \in float_short_percent
                      THEN 1 ELSE 0)
        base    == [exc |-> "", img |-> im, index |-> index, color |-> color,
                    current |-> current, target |-> target,
                    divided |-> pr.divided, progress |-> pr.p,
                    bar |-> NoBar, percent |-> 0]
    IN IF pr.exc # ""
       THEN [base EXCEPT !.exc = pr.exc]
       ELSE IF bar.exc # ""
       THEN [base EXCEPT !.exc = bar.exc, !.bar = bar]
       ELSE IF stats_text_exc(current, target) # ""
       THEN [base EXCEPT !.exc = stats_text_exc(current, target), !.bar = bar,
                         !.percent = percent]
       ELSE [base EXCEPT !.img = Paint(im, "goal"), !.bar = bar,
                         !.percent = percent]

-----------------------------------------------------------------------------
(* apply_all_effects on the composer's canvases *)

EffectNames == {"color_boost", "chromatic", "glitch", "scanlines", "noise",
                "vignette"}
Flags == [EffectNames -> BOOLEAN]

\* the call of one add_* function on im, when no exception is pending
\* add_chromatic_aberration(offset=2) crops (2, 0, width, height);
\* add_glitch_strips draws random.randint(0, height - 30)
effect_exc(name, im, st) ==
    IF name = "chromatic" /\ st /\ im.size[1] < fx_chromatic_offset
        THEN "ValueError"
    ELSE IF name = "glitch" /\ im.size[2] < glitch_margin THEN "ValueError"
    ELSE ""

\* one "if flag: img = add_x(img)" of apply_all_effects; s = [img, calls, exc]
fx_step(s, flags, name, st) ==
    IF s.exc # "" \/ ~flags[name] THEN s
    ELSE LET call == [fn |-> name, arg |-> s.img]
             e    == effect_exc(name, s.img, st)
         IN IF e # ""
            THEN [img |-> s.img, calls |-> Append(s.calls, call), exc |-> e]
            ELSE [img |-> Paint(s.img, name), calls |-> Append(s.calls, call),
                  exc |-> ""]

apply_all_effects_VignetteBeforeNoise(im, flags, st) ==
    LET s0 == [img |-> im, calls |-> <<>>, exc |-> ""]
        s1 == fx_step(s0, flags, "color_boost", st)
        s2 == fx_step(s1, flags, "chromatic", st)
        s3 == fx_step(s2, flags, "glitch", st)
        s4 == fx_step(s3, flags, "scanlines", st)
        s5 == fx_step(s4, flags, "vignette", st)
    IN fx_step(s5, flags, "noise", st)
apply_all_effects_NoiseAlways(im, flags, st) ==
    LET s0 == [img |-> im, calls |-> <<>>, exc |-> ""]
        s1 == fx_step(s0, flags, "color_boost", st)
        s2 == fx_step(s1, flags, "chromatic", st)
        s3 == fx_step(s2, flags, "glitch", st)
        s4 == fx_step(s3, flags, "scanlines", st)
        s5 == fx_step(s4, [flags EXCEPT !["noise"] = TRUE], "noise", st)
    IN fx_step(s5, flags, "vignette", st)
apply_all_effects(im, flags, st) ==
    LET s0 == [img |-> im, calls |-> <<>>, exc |-> ""]
        s1 == fx_step(s0, flags, "color_boost", st)
        s2 == fx_step(s1, flags, "chromatic", st)
        s3 == fx_step(s2, flags, "glitch", st)
        s4 == fx_step(s3, flags, "scanlines", st)
        s5 == fx_step(s4, flags, "noise", st)
    IN fx_step(s5, flags, "vignette", st)

\* the flags generate_wallpaper passes
generate_flags ==
    [n \in EffectNames |-> n # "glitch"]

-----------------------------------------------------------------------------
(* add_chromatic_aberration, pixel by pixel *)

Coords(size) == (0 .. (size[1] - 1)) \X (0 .. (size[2] - 1))

\* Image.new('L', size, fill)
ImageNew(size, fill) == [size |-> size, px |-> [p \in Coords(size) |-> fill]]

\* Image.crop((left, upper, right, lower)); pixels outside the image are 0
Crop(im, left, upper, right, lower) ==
    LET size == <<right - left, lower - upper>>
    IN [size |-> size,
        px |-> [p \in Coords(size) |->
                  IF <<p[1] + left, p[2] + upper>> \in DOMAIN im.px
                  THEN im.px[<<p[1] + left, p[2] + upper>>] ELSE 0]]

\* dst.paste(src, (ox, oy))
Paste(dst, src, ox, oy) ==
    [size |-> dst.size,
     px |-> [p \in DOMAIN dst.px |->
               IF <<p[1] - ox, p[2] - oy>> \in DOMAIN src.px
               THEN src.px[<<p[1] - ox, p[2] - oy>>] ELSE dst.px[p]]]

\* one band of img.split(); c = 1, 2, 3 for r, g, b
Band(im, c) == [size |-> im.size, px |-> [p \in DOMAIN im.px |-> im.px[p][c]]]

\* Image.merge('RGB', (r, g, b))
Merge(r, g, b) ==
    [size |-> r.size,
     px |-> [p \in DOMAIN r.px |-> <<r.px[p], g.px[p], b.px[p]>>]]

\* a rotation of the channels instead of a shift: the columns pushed out at one
\* edge come back at the other
add_chromatic_aberration_Wrap(im, offset) ==
    LET w == im.size[1]
        rot(band, d) ==
            [size |-> band.size,
             px |-> [p \in DOMAIN band.px |->
                       band.px[<<(p[1] + d + w) % w, p[2]>>]]]
    IN Merge(rot(Band(im, 1), offset), Band(im, 2), rot(Band(im, 3), -offset))
add_chromatic_aberration(im, offset) ==
    LET r == Band(im, 1)
        g == Band(im, 2)
        b == Band(im, 3)
        w == im.size[1]
        h == im.size[2]
        r_cropped == Crop(r, offset, 0, w, h)
        r_shifted == Paste(ImageNew(r.size, 0), r_cropped, 0, 0)
        b_cropped == Crop(b, 0, 0, w - offset, h)
        b_shifted == Paste(ImageNew(b.size, 0), b_cropped, offset, 0)
    IN Merge(r_shifted, g, b_shifted)

-----------------------------------------------------------------------------
(* The inputs of the model *)

\* canvas widths: below the chromatic offset, too narrow for a bar, the
\* scenario's 800, and the default 1920
Widths == {1, 300, 800, 1920}
\* canvas heights: too small for a palm trunk (up to 5), the smallest that is
\* not, either side of the first goal's cutoff (460), the scenario's 600,
\* past the second goal's cutoff (661), and the default 1080
Heights == {3, 5, 6, 460, 461, 600, 661, 1080}

Goal(current, target) == [current |-> current, target |-> target]
\* the goals of a configuration: half done, overshot, no target, a missing
\* current, a current that is not a number
GoalSamples == {Goal(Num(1), Num(2)), Goal(Num(3), Num(2)), Goal(Num(1), Num(0)),
                Goal(Absent, Num(2)), Goal(Str, Num(2))}

SeqsUpTo(S, n) == UNION {[1..k -> S] : k \in 0..n}

Configs == [width : Widths, height : Heights,
            goals : SeqsUpTo(GoalSamples, MaxGoals),
            output_path : BOOLEAN]

\* goal_width = min(600, width - 200)
goal_width_of(width) == Min(max_goal_width, width - goal_side_margin)

\* y + goal_height < height * 0.5 (height * 0.5 is exact)
goal_fits_SlotStartOnly(y, height) == 2 * y < height
goal_fits(y, height) == 2 * (y + goal_height) < height

goal_y(i) == goal_start_y + i * goal_height

NoGoalResult ==
    [exc |-> "", img |-> NoImage, index |-> 0, color |-> "", current |-> Absent,
     target |-> Absent, divided |-> FALSE, progress |-> Zero, bar |-> NoBar,
     percent |-> 0]
NoFx == [img |-> NoImage, calls |-> <<>>, exc |-> ""]
NoPixels == [size |-> <<0, 0>>, px |-> <<>>]
NoFontResult == [font |-> NoFont, tried |-> <<>>, exc |-> ""]

GenIdle ==
    /\ cfg = [width |-> 0, height |-> 0, goals |-> <<>>, output_path |-> FALSE]
    /\ pc = "idle" /\ img = NoImage /\ idx = 0 /\ exc = "" /\ trace = <<>>
    /\ drawn = <<>> /\ ret = NoImage
GoalIdle ==
    /\ g_in = [goal |-> Goal(Absent, Absent), x |-> 0, y |-> 0, width |-> 0,
               index |-> 0]
    /\ g_out = [called |-> FALSE, r |-> NoGoalResult]
FxIdle ==
    /\ fx_in = [img |-> NoImage, flags |-> [n \in EffectNames |-> FALSE]]
    /\ fx_out = [called |-> FALSE, r |-> NoFx]
CaIdle ==
    /\ ca_in = [img |-> NoPixels, offset |-> 0]
    /\ ca_out = [called |-> FALSE, img |-> NoPixels]
FontIdle ==
    /\ font_in = [fs |-> [f \in FontFiles |-> "missing"], size |-> 0]
    /\ font_out = [called |-> FALSE, r |-> NoFontResult]

-----------------------------------------------------------------------------
(* The requests of the HTTP handler *)

\* a goals_config as the handler holds it: resolution is a pair of numbers,
\* or something else ("malformed": a string, a single number, ...)
HConfig(resolution, size, goals) ==
    [resolution |-> resolution, size |-> size, goals |-> goals]

\* load_goals() when goals.json is missing
default_goals_config ==
    HConfig("pair", <<1920, 1080>>,
            <<Goal(Num(50), Num(100)), Goal(Num(30), Num(100)),
              Goal(Num(75), Num(100))>>)

\* the resolution and goals a POST body leaves out
post_default_resolution == <<1920, 1080>>
post_default_goals == <<>>

\* the resolutions and goals lists a request carries
HttpSizes == {<<800, 600>>, <<800, 3>>}
HttpGoals == {<<>>, <<Goal(Num(1), Num(2))>>}

\* the config read from a goals.json that is present and well formed
file_goals_config == HConfig("pair", <<800, 600>>, <<Goal(Num(1), Num(2))>>)

\* a POST body: bytes that are not UTF-8, text that is not JSON, a JSON value
\* that is not an object (a list, a number, a string, null), or an object
\* with or without the keys resolution and goals
NoBody == [kind |-> "none", resolution |-> "absent", size |-> <<0, 0>>,
           has_goals |-> FALSE, goals |-> <<>>]
Bodies ==
    {[NoBody EXCEPT !.kind = k] : k \in {"bad_utf8", "bad_json", "non_object"}}
    \cup {[kind |-> "object", resolution |-> "absent", size |-> <<0, 0>>,
           has_goals |-> hg, goals |-> g] :
            <<hg, g>> \in {<<FALSE, <<>>>>} \cup ({TRUE} \X HttpGoals)}
    \cup {[kind |-> "object", resolution |-> "malformed", size |-> <<0, 0>>,
           has_goals |-> hg, goals |-> g] :
            <<hg, g>> \in {<<FALSE, <<>>>>} \cup ({TRUE} \X HttpGoals)}
    \cup {[kind |-> "object", resolution |-> "pair", size |-> sz,
           has_goals |-> hg, goals |-> g] :
            sz \in HttpSizes,
            <<hg, g>> \in {<<FALSE, <<>>>>} \cup ({TRUE} \X HttpGoals)}

\* query: no width/height, width and height that are not integers, or a
\* resolution; file: the state of goals.json; length: the Content-Length header
NoRequest == [method |-> "", length |-> "absent", body |-> NoBody,
              query |-> "none", qsize |-> <<0, 0>>, file |-> "missing"]
Requests ==
    {[NoRequest EXCEPT !.method = "GET", !.query = q[1], !.qsize = q[2],
                       !.file = f] :
        q \in {<<"none", <<0, 0>>>>, <<"bad", <<0, 0>>>>}
              \cup ({"pair"} \X HttpSizes),
        f \in {"missing", "ok", "invalid"}}
    \cup {[NoRequest EXCEPT !.method = "POST", !.length = "ok", !.body = b] :
            b \in Bodies}
    \cup {[NoRequest EXCEPT !.method = "POST", !.length = l] :
            l \in {"absent", "bad"}}

NoConfig == HConfig("absent", <<0, 0>>, <<>>)

HttpIdle ==
    /\ req = NoRequest /\ hpc = "idle" /\ goals_config = NoConfig
    /\ hexc = "" /\ image_data = "" /\ hbuf = <<>> /\ wire = <<>>
    /\ statuses = <<>> /\ conn = "open" /\ gen_calls = 0

-----------------------------------------------------------------------------
(* The environment of the client *)

\* the keyword found in XDG_CURRENT_DESKTOP ("other": none of them)
Desktops == {"gnome", "kde", "xfce", "hyprland", "sway", "other"}
Sessions == {"wayland", "x11"}

\* what subprocess.run(cmd, capture_output=True, timeout=10) does: the command
\* exits 0, exits non-zero, is not installed (FileNotFoundError), runs longer
\* than 10 s (TimeoutExpired), or cannot be executed (PermissionError)
Outcomes == {"zero", "nonzero", "missing", "timeout", "oserror"}

Cmd(name, what) == [name |-> name, what |-> what]

\* the list built by set_wallpaper_linux before its loop
linux_commands(e) ==
    LET first ==
          IF e.desktop \in {"gnome", "unity"}
          THEN <<Cmd("gsettings", "picture-uri"),
                 Cmd("gsettings", "picture-uri-dark")>>
          ELSE IF e.desktop \in {"kde", "plasma"}
          THEN <<Cmd("plasma-apply-wallpaperimage", "image")>>
          ELSE IF e.desktop = "xfce"
          THEN <<Cmd("xfconf-query", "last-image")>>
          ELSE IF e.desktop = "hyprland" \/ e.session = "wayland"
          THEN (IF (e.conf_exists \/ e.desktop = "hyprland") /\ e.conf_writable
                THEN <<Cmd("hyprctl", "hyprpaper reload")>> ELSE <<>>)
               \o <<Cmd("pkill", "swaybg"), Cmd("swaybg", "image")>>
          ELSE IF e.desktop = "sway"
          THEN <<Cmd("swaymsg", "output * bg image fill")>>
          ELSE <<>>
    IN IF first = <<>>
       THEN <<Cmd("feh", "image"), Cmd("nitrogen", "image")>>
       ELSE first

LinuxEnvs ==
    {e \in [desktop : Desktops, session : Sessions, conf_exists : BOOLEAN,
            conf_writable : BOOLEAN, outcomes : SeqsUpTo(Outcomes, 3)] :
        Len(e.outcomes) = Len(linux_commands(e))}

NoLinuxEnv == [desktop |-> "", session |-> "", conf_exists |-> FALSE,
               conf_writable |-> FALSE, outcomes |-> <<>>]

SwIdle ==
    /\ sw_env = NoLinuxEnv /\ commands = <<>> /\ sw_pc = "idle" /\ sw_k = 0
    /\ ran = <<>> /\ sw_ret = "none"

NoArgs == [local |-> FALSE, api |-> "none", no_set |-> FALSE]
NoEnv == [platform |-> "", fetch_ok |-> FALSE, gen_ok |-> FALSE,
          set_ok |-> FALSE]

MainIdle ==
    /\ args = NoArgs /\ env = NoEnv /\ mpc = "idle" /\ success = FALSE
    /\ made = <<>> /\ set_ret = "none" /\ exit_status = -1

ClientIdle == SwIdle /\ MainIdle /\ printed = <<>>


-----------------------------------------------------------------------------
(* Two concurrent calls of generate_wallpaper *)

Calls == {1, 2}

\* the random.randint calls made by draw_palm_trees (4 trees of 7 fronds in
\* the program) and by add_noise (one per pixel)
MaxFronds == 2
MaxNoise == 2

\* the stages of a call: generate_wallpaper, then apply_all_effects with the
\* flags generate_wallpaper passes
stage_order == <<"alloc", "sky", "sun", "shapes", "trees", "grid", "title",
                 "goals", "color_boost", "chromatic", "scanlines", "noise",
                 "vignette">>

\* the number of random.randint calls of a stage
draws_of(stage) ==
    IF stage = "trees" THEN MaxFronds
    ELSE IF stage = "noise" THEN MaxNoise
    ELSE 0

NoCall == [at |-> 0, left |-> 0, img |-> -1, base |-> 0, draws |-> <<>>]

ConcIdle ==
    /\ rng_state = 0 /\ canvases = <<>> /\ next_id = 0
    /\ gw = [c \in Calls |-> NoCall]

GlitchIdle ==
    /\ gl_in = [img |-> NoPixels, num_strips |-> 0, max_offset |-> 0]
    /\ gl_pc = "idle" /\ gl_result = NoPixels /\ gl_strips = <<>>
    /\ gl_exc = ""

NoMask == [size |-> <<0, 0>>, background |-> 0, ellipses |-> <<>>]

VigIdle ==
    /\ vg_in = [size |-> <<0, 0>>, strength |-> 0]
    /\ vg_pc = "idle" /\ vg_i = 0 /\ vignette = NoMask

ExtIdleBut(s) ==
    /\ s # "http" => HttpIdle
    /\ s # "client" => ClientIdle
    /\ s # "conc" => ConcIdle
    /\ s # "glitch" => GlitchIdle
    /\ s # "vignette" => VigIdle

ExtIdle == ExtIdleBut("")

-----------------------------------------------------------------------------
(* generate_wallpaper, stage by stage *)

Init ==
    /\ strict \in BOOLEAN
    /\ cfg \in Configs
    /\ pc = "alloc" /\ img = NoImage /\ idx = 0 /\ exc = "" /\ trace = <<>>
    /\ drawn = <<>> /\ ret = NoImage
    /\ GoalIdle /\ FxIdle /\ CaIdle /\ FontIdle /\ ExtIdle

others == <<strict, cfg, goalVars, fxVars, caVars, fontVars, extVars>>

\* a stage that cannot raise: img = stage(img)
Stage(at, name, result, next) ==
    /\ pc = at
    /\ trace' = Append(trace, name)
    /\ img' = result
    /\ pc' = next
    /\ UNCHANGED <<idx, exc, drawn, ret, others>>

Alloc  == Stage("alloc", "alloc", NewCanvas(cfg.width, cfg.height), "sky")
Sky    == Stage("sky", "sky", draw_gradient_sky(img), "sun")
Sun    == Stage("sun", "sun", draw_sun(img), "shapes")
Shapes == Stage("shapes", "shapes", draw_geometric_shapes(img), "trees")

Trees ==
    /\ pc = "trees"
    /\ trace' = Append(trace, "trees")
    /\ LET r == draw_palm_trees(img)
       IN /\ img' = r.img
          /\ exc' = r.exc
          /\ pc' = IF r.exc = "" THEN "grid" ELSE "raised"
    /\ UNCHANGED <<idx, drawn, ret, others>>

Grid  == Stage("grid", "grid", draw_perspective_grid(img), "title")
Title == Stage("title", "title", draw_title(img), "goals")

\* one iteration of "for i, goal in enumerate(goals)"
GoalLoop ==
    /\ pc = "goals"
    /\ idx < Len(cfg.goals)
    /\ IF goal_fits(goal_y(idx), cfg.height)
       THEN LET r == draw_goal(img, cfg.goals[idx + 1], goal_x, goal_y(idx),
                               goal_width_of(cfg.width), idx, strict)
            IN /\ trace' = Append(trace, "goal")
               /\ drawn' = Append(drawn, r)
               /\ exc' = r.exc
               /\ img' = r.img
               /\ IF r.exc = ""
                  THEN pc' = "goals" /\ idx' = idx + 1
                  ELSE pc' = "raised" /\ idx' = idx
       ELSE /\ idx' = idx + 1
            /\ UNCHANGED <<pc, trace, drawn, exc, img>>
    /\ UNCHANGED <<ret, others>>

\* img = apply_all_effects(img, ...), after the loop
Effects ==
    /\ pc = "goals"
    /\ idx = Len(cfg.goals)
    /\ trace' = Append(trace, "effects")
    /\ LET r == apply_all_effects(img, generate_flags, strict)
       IN /\ img' = r.img
          /\ exc' = r.exc
          /\ pc' = IF r.exc = "" THEN "save" ELSE "raised"
    /\ UNCHANGED <<idx, drawn, ret, others>>

\* "if output_path: img.save(...)" and "return img"
Return ==
    /\ pc = "save"
    /\ trace' = IF cfg.output_path THEN Append(trace, "save") ELSE trace
    /\ ret' = img
    /\ pc' = "done"
    /\ UNCHANGED <<img, idx, exc, drawn, others>>

Next ==
    \/ Alloc \/ Sky \/ Sun \/ Shapes \/ Trees \/ Grid \/ Title
    \/ GoalLoop \/ Effects \/ Return

Spec == Init /\ [][Next]_vars

-----------------------------------------------------------------------------
(* draw_goal on its own *)

GoalInputs ==
    [goal : [current : JsonVals, target : JsonVals],
     x : {goal_x},
     y : {goal_y(i) : i \in 0 .. (MaxGoals - 1)},
     width : {goal_width_of(w) : w \in Widths},
     index : 0 .. (MaxGoals - 1)]

InitGoal ==
    /\ strict \in BOOLEAN
    /\ g_in \in {g \in GoalInputs : g.y = goal_y(g.index)}
    /\ g_out = [called |-> FALSE, r |-> NoGoalResult]
    /\ GenIdle /\ FxIdle /\ CaIdle /\ FontIdle /\ ExtIdle

CallDrawGoal ==
    /\ ~g_out.called
    /\ g_out' = [called |-> TRUE,
                 r |-> draw_goal(NewCanvas(1920, 1080), g_in.goal, g_in.x,
                                 g_in.y, g_in.width, g_in.index, strict)]
    /\ UNCHANGED <<strict, g_in, genVars, fxVars, caVars, fontVars, extVars>>

NextGoal == CallDrawGoal

SpecGoal == InitGoal /\ [][NextGoal]_vars

-----------------------------------------------------------------------------
(* apply_all_effects on its own *)

FxCanvases ==
    {Paint(NewCanvas(s[1], s[2]), "content") :
        s \in {<<1, 1>>, <<800, 29>>, <<800, 600>>}}

InitFx ==
    /\ strict \in BOOLEAN
    /\ fx_in \in [img : FxCanvases, flags : Flags]
    /\ fx_out = [called |-> FALSE, r |-> NoFx]
    /\ GenIdle /\ GoalIdle /\ CaIdle /\ FontIdle /\ ExtIdle

CallApplyAllEffects ==
    /\ ~fx_out.called
    /\ fx_out' = [called |-> TRUE,
                  r |-> apply_all_effects(fx_in.img, fx_in.flags, strict)]
    /\ UNCHANGED <<strict, fx_in, genVars, goalVars, caVars, fontVars, extVars>>

NextFx == CallApplyAllEffects

SpecFx == InitFx /\ [][NextFx]_vars

-----------------------------------------------------------------------------
(* add_chromatic_aberration on its own *)

\* the pixels an image is made of: black, and two colours whose channels
\* all differ
PixelSamples == {<<0, 0, 0>>, <<10, 20, 30>>, <<40, 50, 60>>}

PixelImages ==
    UNION {{[size |-> <<w, h>>, px |-> f] :
              f \in [Coords(<<w, h>>) -> PixelSamples]} :
           <<w, h>> \in (1..MaxW) \X (1..MaxH)}

InitCa ==
    /\ strict = FALSE
    /\ ca_in \in {[img |-> i, offset |-> k] :
                    <<i, k>> \in {c \in PixelImages \X (0..MaxW) :
                                    c[2] <= c[1].size[1]}}
    /\ ca_out = [called |-> FALSE, img |-> NoPixels]
    /\ GenIdle /\ GoalIdle /\ FxIdle /\ FontIdle /\ ExtIdle

CallChromatic ==
    /\ ~ca_out.called
    /\ ca_out' = [called |-> TRUE,
                  img |-> add_chromatic_aberration(ca_in.img, ca_in.offset)]
    /\ UNCHANGED <<strict, ca_in, genVars, goalVars, fxVars, fontVars, extVars>>

NextCa == CallChromatic

SpecCa == InitCa /\ [][NextCa]_vars

-----------------------------------------------------------------------------
(* get_font on its own *)

InitFont ==
    /\ strict = FALSE
    /\ font_in \in [fs : [FontFiles -> FileStates], size : FontSizes]
    /\ font_out = [called |-> FALSE, r |-> NoFontResult]
    /\ GenIdle /\ GoalIdle /\ FxIdle /\ CaIdle /\ ExtIdle

CallGetFont ==
    /\ ~font_out.called
    /\ font_out' = [called |-> TRUE, r |-> get_font(font_in.fs, font_in.size)]
    /\ UNCHANGED <<strict, font_in, genVars, goalVars, fxVars, caVars, extVars>>

NextFont == CallGetFont

SpecFont == InitFont /\ [][NextFont]_vars

-----------------------------------------------------------------------------
(* The HTTP handler: do_GET and do_POST of api/generate.py *)

\* do_GET up to the call of generate_wallpaper: load_goals(), then the
\* resolution override when width and height are both integers
get_config(r) ==
    LET base == IF r.file = "missing" THEN default_goals_config
                ELSE file_goals_config
    IN IF r.file = "invalid"
       THEN [exc |-> "JSONDecodeError", config |-> NoConfig]
       ELSE IF r.query = "pair"
       THEN [exc |-> "", config |-> [base EXCEPT !.resolution = "pair",
                                                !.size = r.qsize]]
       ELSE [exc |-> "", config |-> base]

\* do_POST up to the call of generate_wallpaper: int(Content-Length), read,
\* decode, json.loads, then the defaults of the missing keys
post_config(r) ==
    LET b == r.body
    IN IF r.length = "bad"
       THEN [exc |-> "ValueError", config |-> NoConfig]
       ELSE IF r.length = "absent"
       THEN \* the body read is empty: json.loads("") fails
            [exc |-> "JSONDecodeError", config |-> NoConfig]
       ELSE IF b.kind = "bad_utf8"
       THEN [exc |-> "UnicodeDecodeError", config |-> NoConfig]
       ELSE IF b.kind = "bad_json"
       THEN [exc |-> "JSONDecodeError", config |-> NoConfig]
       ELSE IF b.kind = "non_object"
       THEN \* "in" or the item assignment on a list, number, string or None
            [exc |-> "TypeError", config |-> NoConfig]
       ELSE [exc |-> "",
             config |->
                HConfig(IF b.resolution = "absent" THEN "pair"
                        ELSE b.resolution,
                        IF b.resolution = "absent"
                        THEN post_default_resolution ELSE b.size,
                        IF b.has_goals THEN b.goals ELSE post_default_goals)]

\* the except clause that catches e: do_POST answers 400 to JSONDecodeError
error_status(method, e) ==
    IF method = "POST" /\ e = "JSONDecodeError" THEN 400 ELSE 500

StatusLine(code) == <<"status", code>>
Header(name, value) == <<"header", name, value>>
EndOfHeaders == <<"end of headers">>
Body(kind) == <<"body", kind>>

\* send_response(200) and the send_header calls after it
success_headers(method) ==
    <<StatusLine(200), Header("Content-Type", "image/png"),
      Header("Content-Length", "len(image_data)")>>
    \o (IF method = "GET"
        THEN <<Header("Cache-Control", "public, max-age=300")>> ELSE <<>>)

\* send_response(code) and send_header of an except clause
error_headers(code) ==
    <<StatusLine(code), Header("Content-Type", "application/json")>>

InitHttp ==
    /\ strict \in BOOLEAN
    /\ req \in Requests
    /\ hpc = "parse" /\ goals_config = NoConfig /\ hexc = ""
    /\ image_data = "" /\ hbuf = <<>> /\ wire = <<>> /\ statuses = <<>>
    /\ conn = "open" /\ gen_calls = 0
    /\ GenIdle /\ GoalIdle /\ FxIdle /\ CaIdle /\ FontIdle
    /\ ExtIdleBut("http")

httpRest == <<strict, goalVars, fxVars, caVars, fontVars, clientVars, concVars,
             glitchVars, vigVars>>

HParse ==
    /\ hpc = "parse"
    /\ LET r == IF req.method = "GET" THEN get_config(req)
                ELSE post_config(req)
       IN /\ goals_config' = r.config
          /\ hexc' = r.exc
          /\ hpc' = IF r.exc = "" THEN "generate" ELSE "except"
    /\ UNCHANGED <<req, image_data, hbuf, wire, statuses, conn, gen_calls,
                   genVars, httpRest>>

\* img = generate_wallpaper(goals_config): "width, height = resolution" raises
\* when resolution is not a pair
CallGenerate ==
    /\ hpc = "generate"
    /\ gen_calls' = gen_calls + 1
    /\ IF goals_config.resolution = "pair"
       THEN /\ cfg' = [width |-> goals_config.size[1],
                       height |-> goals_config.size[2],
                       goals |-> goals_config.goals, output_path |-> FALSE]
            /\ pc' = "alloc"
            /\ hpc' = "rendering"
            /\ UNCHANGED hexc
       ELSE /\ hexc' = "ValueError"
            /\ hpc' = "except"
            /\ UNCHANGED <<cfg, pc>>
    /\ UNCHANGED <<req, goals_config, image_data, hbuf, wire, statuses, conn,
                   img, idx, exc, trace, drawn, ret, httpRest>>

\* generate_wallpaper returns, or its exception reaches the handler
AwaitGenerate ==
    /\ hpc = "rendering"
    /\ pc \in {"done", "raised"}
    /\ IF pc = "done"
       THEN hpc' = "encode" /\ UNCHANGED hexc
       ELSE hpc' = "except" /\ hexc' = exc
    /\ UNCHANGED <<req, goals_config, image_data, hbuf, wire, statuses, conn,
                   gen_calls, genVars, httpRest>>

\* img.save(buffer, format='PNG') and buffer.getvalue(); the encoder may fail
Encode ==
    /\ hpc = "encode"
    /\ \E ok \in BOOLEAN :
          IF ok
          THEN image_data' = "png" /\ hpc' = "send200" /\ UNCHANGED hexc
          ELSE hexc' = "OSError" /\ hpc' = "except" /\ UNCHANGED image_data
    /\ UNCHANGED <<req, goals_config, hbuf, wire, statuses, conn, gen_calls,
                   genVars, httpRest>>

\* send_response(200) and the send_header calls: buffered, nothing is written
Send200 ==
    /\ hpc = "send200"
    /\ statuses' = Append(statuses, 200)
    /\ hbuf' = hbuf \o success_headers(req.method)
    /\ hpc' = "end_headers"
    /\ UNCHANGED <<req, goals_config, hexc, image_data, wire, conn, gen_calls,
                   genVars, httpRest>>

\* end_headers(): the buffer is written to wfile and emptied; when the write
\* raises the buffer keeps its lines
EndHeaders ==
    /\ hpc = "end_headers"
    /\ IF conn = "open"
       THEN /\ wire' = wire \o hbuf \o <<EndOfHeaders>>
            /\ hbuf' = <<>>
            /\ hpc' = "write"
            /\ UNCHANGED hexc
       ELSE /\ hbuf' = Append(hbuf, EndOfHeaders)
            /\ hexc' = "BrokenPipeError"
            /\ hpc' = "except"
            /\ UNCHANGED wire
    /\ UNCHANGED <<req, goals_config, image_data, statuses, conn, gen_calls,
                   genVars, httpRest>>

\* wfile.write(image_data): all of it, or the connection breaks on the way
WriteBody ==
    /\ hpc = "write"
    /\ \/ /\ conn = "open"
          /\ wire' = Append(wire, Body("png"))
          /\ hpc' = "done"
          /\ UNCHANGED <<hexc, conn>>
       \/ /\ conn = "open"
          /\ wire' = Append(wire, Body("png, truncated"))
          /\ conn' = "broken"
          /\ hexc' = "BrokenPipeError"
          /\ hpc' = "except"
       \/ /\ conn = "broken"
          /\ hexc' = "BrokenPipeError"
          /\ hpc' = "except"
          /\ UNCHANGED <<wire, conn>>
    /\ UNCHANGED <<req, goals_config, image_data, hbuf, statuses, gen_calls,
                   genVars, httpRest>>

\* the except clauses: send_response(400 or 500) and send_header
Except ==
    /\ hpc = "except"
    /\ LET code == error_status(req.method, hexc)
       IN /\ statuses' = Append(statuses, code)
          /\ hbuf' = hbuf \o error_headers(code)
    /\ hpc' = "error_end_headers"
    /\ UNCHANGED <<req, goals_config, hexc, image_data, wire, conn, gen_calls,
                   genVars, httpRest>>

\* end_headers() of an except clause: an exception here leaves the handler
ErrorEndHeaders ==
    /\ hpc = "error_end_headers"
    /\ IF conn = "open"
       THEN /\ wire' = wire \o hbuf \o <<EndOfHeaders>>
            /\ hbuf' = <<>>
            /\ hpc' = "error_write"
            /\ UNCHANGED hexc
       ELSE /\ hbuf' = Append(hbuf, EndOfHeaders)
            /\ hexc' = "BrokenPipeError"
            /\ hpc' = "crashed"
            /\ UNCHANGED wire
    /\ UNCHANGED <<req, goals_config, image_data, statuses, conn, gen_calls,
                   genVars, httpRest>>

\* wfile.write(json.dumps({'error': ...}).encode())
ErrorWrite ==
    /\ hpc = "error_write"
    /\ IF conn = "open"
       THEN wire' = Append(wire, Body("json error")) /\ hpc' = "done"
                /\ UNCHANGED hexc
       ELSE hexc' = "BrokenPipeError" /\ hpc' = "crashed" /\ UNCHANGED wire
    /\ UNCHANGED <<req, goals_config, image_data, hbuf, statuses, conn,
                   gen_calls, genVars, httpRest>>

\* the client closes the connection while the request is being served
Disconnect ==
    /\ hpc \notin {"idle", "done", "crashed"}
    /\ conn = "open"
    /\ conn' = "broken"
    /\ UNCHANGED <<req, hpc, goals_config, hexc, image_data, hbuf, wire,
                   statuses, gen_calls, genVars, httpRest>>

NextHttp ==
    \/ HParse \/ CallGenerate \/ Next \/ AwaitGenerate \/ Encode \/ Send200
    \/ EndHeaders \/ WriteBody \/ Except \/ ErrorEndHeaders \/ ErrorWrite
    \/ Disconnect

SpecHttp == InitHttp /\ [][NextHttp]_vars

-----------------------------------------------------------------------------
(* set_wallpaper_linux *)

clientRest == <<strict, genVars, goalVars, fxVars, caVars, fontVars, httpVars,
               concVars, glitchVars, vigVars>>

\* one iteration of "for cmd in commands": returncode 0 returns True,
\* TimeoutExpired and FileNotFoundError are caught and the loop continues, a
\* non-zero returncode falls through to the next iteration, any other
\* exception leaves the function
run_outcome_MissingAborts(o) ==
    IF o = "zero" THEN "return"
    ELSE IF o \in {"nonzero", "timeout"} THEN "continue"
    ELSE "raise"
run_outcome(o) ==
    IF o = "zero" THEN "return"
    ELSE IF o \in {"nonzero", "missing", "timeout"} THEN "continue"
    ELSE "raise"

InitSetLinux ==
    /\ strict = FALSE
    /\ sw_env \in LinuxEnvs
    /\ commands = <<>> /\ sw_pc = "build" /\ sw_k = 0 /\ ran = <<>>
    /\ sw_ret = "none" /\ printed = <<>>
    /\ MainIdle
    /\ GenIdle /\ GoalIdle /\ FxIdle /\ CaIdle /\ FontIdle
    /\ ExtIdleBut("client")

\* lines 76-129: the commands list
SwBuild ==
    /\ sw_pc = "build"
    /\ commands' = linux_commands(sw_env)
    /\ sw_pc' = "loop"
    /\ UNCHANGED <<sw_env, sw_k, ran, sw_ret, printed, mainVars, clientRest>>

\* lines 132-139: subprocess.run on the next command
SwRun ==
    /\ sw_pc = "loop"
    /\ sw_k < Len(commands)
    /\ LET cmd == commands[sw_k + 1]
           todo == run_outcome(sw_env.outcomes[sw_k + 1])
       IN /\ ran' = Append(ran, cmd)
          /\ sw_k' = sw_k + 1
          /\ sw_pc' = CASE todo = "return" -> "returned"
                        [] todo = "continue" -> "loop"
                        [] OTHER -> "raised"
          /\ sw_ret' = IF todo = "return" THEN "True" ELSE sw_ret
          /\ printed' = IF todo = "return"
                        THEN Append(printed, <<"Wallpaper set successfully using",
                                               cmd.name>>)
                        ELSE printed
    /\ UNCHANGED <<sw_env, commands, mainVars, clientRest>>

\* lines 141-143: the loop ended without a return
SwGiveUp ==
    /\ sw_pc = "loop"
    /\ sw_k = Len(commands)
    /\ printed' = Append(printed,
                         <<"Warning: Could not detect method to set wallpaper">>)
    /\ sw_ret' = "False"
    /\ sw_pc' = "returned"
    /\ UNCHANGED <<sw_env, commands, sw_k, ran, mainVars, clientRest>>

NextSetLinux == SwBuild \/ SwRun \/ SwGiveUp

SpecSetLinux == InitSetLinux /\ [][NextSetLinux]_vars

-----------------------------------------------------------------------------
(* main of client/update_wallpaper.py *)

Platforms == {"Linux", "Darwin", "Windows", "FreeBSD"}

\* the Linux desktops main is run on: two commands, three commands, and the
\* feh / nitrogen fallback; a command exits 0, exits non-zero or is missing
ClientLinuxEnvs ==
    {e \in LinuxEnvs :
        /\ e.desktop \in {"gnome", "hyprland", "other"}
        /\ e.session = "x11" /\ ~e.conf_exists /\ e.conf_writable
        /\ \A k \in 1..Len(e.outcomes) :
              e.outcomes[k] \in {"zero", "nonzero", "missing"}}

InitClient ==
    /\ strict = FALSE
    /\ args \in [local : BOOLEAN, api : {"none", "url"}, no_set : BOOLEAN]
    /\ env \in [platform : Platforms, fetch_ok : BOOLEAN, gen_ok : BOOLEAN,
                set_ok : BOOLEAN]
    /\ sw_env \in IF env.platform = "Linux" THEN ClientLinuxEnvs
                  ELSE {NoLinuxEnv}
    /\ env.platform \in {"Linux", "FreeBSD"} => env.set_ok = FALSE
    /\ commands = <<>> /\ sw_pc = "idle" /\ sw_k = 0 /\ ran = <<>>
    /\ sw_ret = "none" /\ printed = <<>>
    /\ mpc = "start" /\ success = FALSE /\ made = <<>> /\ set_ret = "none"
    /\ exit_status = -1
    /\ GenIdle /\ GoalIdle /\ FxIdle /\ CaIdle /\ FontIdle
    /\ ExtIdleBut("client")

\* the API whenever --api is given, --local or not
first_source_ApiFirst(a) ==
    IF a.api = "none" THEN "generate_locally" ELSE "fetch_from_api"

\* "if args.local or args.api is None": the source main asks first
first_source(a) ==
    IF a.local \/ a.api = "none" THEN "generate_locally" ELSE "fetch_from_api"

\* lines 244-249: generate_locally, or fetch_from_api when --api is given
\* without --local; both catch every exception and return a bool
MGenerate ==
    /\ mpc = "start"
    /\ IF first_source(args) = "generate_locally"
       THEN /\ made' = Append(made, "generate_locally")
            /\ success' = env.gen_ok
            /\ mpc' = "generated"
       ELSE /\ made' = Append(made, "fetch_from_api")
            /\ success' = env.fetch_ok
            /\ mpc' = IF env.fetch_ok THEN "generated" ELSE "fallback"
    /\ UNCHANGED <<args, env, set_ret, exit_status, printed, swVars, clientRest>>

\* lines 250-252
MFallback ==
    /\ mpc = "fallback"
    /\ printed' = Append(printed,
                         <<"API fetch failed, falling back to local generation...">>)
    /\ made' = Append(made, "generate_locally")
    /\ success' = env.gen_ok
    /\ mpc' = "generated"
    /\ UNCHANGED <<args, env, set_ret, exit_status, swVars, clientRest>>

\* lines 254-259, and "Done!" when --no-set is given
MCheck ==
    /\ mpc = "generated"
    /\ IF ~success
       THEN /\ printed' = Append(printed, <<"Failed to generate wallpaper">>)
            /\ exit_status' = 1
            /\ mpc' = "exited"
       ELSE IF args.no_set
       THEN /\ printed' = Append(printed, <<"Done!">>)
            /\ exit_status' = 0
            /\ mpc' = "exited"
       ELSE /\ mpc' = "set"
            /\ UNCHANGED <<printed, exit_status>>
    /\ UNCHANGED <<args, env, success, made, set_ret, swVars, clientRest>>

\* set_wallpaper: the dispatch on platform.system(); set_wallpaper_macos and
\* set_wallpaper_windows return True, or False when their call fails
MSetWallpaper ==
    /\ mpc = "set"
    /\ made' = Append(made, "set_wallpaper")
    /\ IF env.platform = "Linux"
       THEN /\ sw_pc' = "build"
            /\ mpc' = "in_set_wallpaper_linux"
            /\ UNCHANGED <<set_ret, printed>>
       ELSE /\ set_ret' = IF env.platform \in {"Darwin", "Windows"} /\ env.set_ok
                          THEN "True" ELSE "False"
            /\ printed' =
                 Append(printed,
                        IF env.platform \notin {"Darwin", "Windows"}
                        THEN <<"Unsupported platform">>
                        ELSE IF env.set_ok THEN <<"Wallpaper set successfully">>
                        ELSE <<"Error setting wallpaper">>)
            /\ mpc' = "after_set"
            /\ UNCHANGED sw_pc
    /\ UNCHANGED <<args, env, success, exit_status, sw_env, commands, sw_k,
                   ran, sw_ret, clientRest>>

\* set_wallpaper_linux returns to set_wallpaper and to main, or its exception
\* passes through both
MSetLinuxReturns ==
    /\ mpc = "in_set_wallpaper_linux"
    /\ sw_pc \in {"returned", "raised"}
    /\ set_ret' = IF sw_pc = "returned" THEN sw_ret ELSE "raised"
    /\ mpc' = "after_set"
    /\ UNCHANGED <<args, env, success, made, exit_status, printed, swVars,
                   clientRest>>

\* lines 260-265; an uncaught exception ends the interpreter with status 1
MFinish ==
    /\ mpc = "after_set"
    /\ IF set_ret = "True"
       THEN /\ printed' = Append(printed, <<"Done!">>)
            /\ exit_status' = 0
       ELSE IF set_ret = "False"
       THEN /\ printed' = printed \o
                 <<<<"Warning: Wallpaper generated but could not be set automatically">>,
                   <<"Wallpaper saved to">>>>
            /\ exit_status' = 1
       ELSE /\ printed' = Append(printed, <<"Traceback">>)
            /\ exit_status' = 1
    /\ mpc' = "exited"
    /\ UNCHANGED <<args, env, success, made, set_ret, swVars, clientRest>>

NextClient ==
    \/ MGenerate \/ MFallback \/ MCheck \/ MSetWallpaper \/ NextSetLinux
    \/ MSetLinuxReturns \/ MFinish

SpecClient == InitClient /\ [][NextClient]_vars

\* main is sequential code: the statement it is at is executed (every
\* subprocess.run of set_wallpaper_linux has a timeout)
SpecClientFair == SpecClient /\ WF_vars(NextClient)

-----------------------------------------------------------------------------
(* Two calls of generate_wallpaper running concurrently.  Every function of   *)
(* lib/elements.py and lib/effects.py draws from the module random, whose     *)
(* generator is one object per process.                                       *)

concRest == <<strict, genVars, goalVars, fxVars, caVars, fontVars, httpVars,
              clientVars, glitchVars, vigVars>>

\* random.randint(a, b): the next value of the generator; the value is named
\* by its position in the generator's sequence
randint(state) == [value |-> state, state |-> state + 1]

\* Image.new(...): a new object
Image_new_Global(next) == 0
Image_new(next) == next

InitConc ==
    /\ strict = FALSE
    /\ rng_state = 0
    /\ canvases = <<>>
    /\ next_id = 0
    /\ gw = [c \in Calls |-> [NoCall EXCEPT !.at = 1]]
    /\ GenIdle /\ GoalIdle /\ FxIdle /\ CaIdle /\ FontIdle
    /\ ExtIdleBut("conc")

\* img = Image.new('RGB', (width, height), (0, 0, 0)) in call c
GwAlloc(c) ==
    /\ gw[c].at = 1
    /\ LET id == Image_new(next_id)
       IN /\ canvases' = [k \in (DOMAIN canvases) \cup {id + 1} |->
                            IF k = id + 1 THEN <<>> ELSE canvases[k]]
          /\ gw' = [gw EXCEPT ![c].img = id, ![c].at = 2,
                              ![c].left = draws_of(stage_order[2]),
                              ![c].base = rng_state]
    /\ next_id' = next_id + 1
    /\ UNCHANGED <<rng_state, concRest>>

\* one random.randint call of the stage call c is in
GwDraw(c) ==
    /\ gw[c].at \in 2..Len(stage_order)
    /\ gw[c].left > 0
    /\ LET r == randint(rng_state)
       IN /\ rng_state' = r.state
          /\ gw' = [gw EXCEPT ![c].draws = Append(@, r.value),
                              ![c].left = @ - 1]
    /\ UNCHANGED <<canvases, next_id, concRest>>

\* the stage call c is in writes its result to the call's img
GwStage(c) ==
    /\ gw[c].at \in 2..Len(stage_order)
    /\ gw[c].left = 0
    /\ canvases' = [canvases EXCEPT ![gw[c].img + 1] =
                       Append(@, <<c, stage_order[gw[c].at]>>)]
    /\ gw' = [gw EXCEPT ![c].at = @ + 1,
                        ![c].left = IF gw[c].at < Len(stage_order)
                                    THEN draws_of(stage_order[gw[c].at + 1])
                                    ELSE 0]
    /\ UNCHANGED <<rng_state, next_id, concRest>>

NextConc == \E c \in Calls : GwAlloc(c) \/ GwDraw(c) \/ GwStage(c)

SpecConc == InitConc /\ [][NextConc]_vars

-----------------------------------------------------------------------------
(* add_glitch_strips, pixel by pixel *)

glitchRest == <<genVars, goalVars, fxVars, caVars, fontVars, httpVars,
                clientVars, concVars, vigVars>>

\* the most strips of a call (apply_all_effects passes 3, the default is 5)
MaxStrips == 2

\* strip_height = random.randint(5, 25)
strip_height_min == 5
strip_height_max == 25

\* an image whose pixels all differ and none of which is black (0): what the
\* function does to it, it does to the pixels of every image of that size
Labelled(w, h) ==
    [size |-> <<w, h>>, px |-> [p \in Coords(<<w, h>>) |-> 1 + p[1] + w * p[2]]]

\* heights: one below the margin of 30, the margin, and one that has room for
\* two strips that do not touch
GlitchHeights == {glitch_margin - 1, glitch_margin, glitch_margin + 6}
GlitchOffsets == {1, 2}

\* Image.crop under the installed Pillow: ValueError when right < left
crop_raises(left, right, st) == st /\ right < left

\* one iteration of the loop of add_glitch_strips on img, with the values
\* drawn for y_start, strip_height and offset; the wraparound is left out in
\* the variant
glitch_strip_NoWrap(im, result, y_start, strip_height, off, st) ==
    LET width  == im.size[1]
        height == im.size[2]
        y_end  == Min(y_start + strip_height, height)
        h      == y_end - y_start
        strip  == Crop(im, 0, y_start, width, y_end)
        blank  == ImageNew(<<width, h>>, 0)
        o      == IF off < 0 THEN -off ELSE off
        shifted ==
            IF off > 0
            THEN Paste(blank, Crop(strip, 0, 0, width - o, h), o, 0)
            ELSE IF off < 0
            THEN Paste(blank, Crop(strip, o, 0, width, h), 0, 0)
            ELSE strip
    IN IF off # 0 /\ crop_raises(0, width - o, st)
       THEN [exc |-> "ValueError", result |-> result]
       ELSE [exc |-> "", result |-> Paste(result, shifted, 0, y_start)]
glitch_strip(im, result, y_start, strip_height, off, st) ==
    LET width  == im.size[1]
        height == im.size[2]
        y_end  == Min(y_start + strip_height, height)
        h      == y_end - y_start
        strip  == Crop(im, 0, y_start, width, y_end)
        blank  == ImageNew(<<width, h>>, 0)
        o      == IF off < 0 THEN -off ELSE off
        shifted ==
            IF off > 0
            THEN Paste(Paste(blank, Crop(strip, 0, 0, width - o, h), o, 0),
                       Crop(strip, width - o, 0, width, h), 0, 0)
            ELSE IF off < 0
            THEN Paste(Paste(blank, Crop(strip, o, 0, width, h), 0, 0),
                       Crop(strip, 0, 0, o, h), width - o, 0)
            ELSE strip
    IN IF off # 0 /\ crop_raises(0, width - o, st)
       THEN \* strip.crop((0, 0, width - offset, h)), or (offset, 0, width, h)
            [exc |-> "ValueError", result |-> result]
       ELSE [exc |-> "", result |-> Paste(result, shifted, 0, y_start)]

InitGlitch ==
    /\ strict \in BOOLEAN
    /\ gl_in \in [img : {Labelled(w, h) : w \in 1..MaxW, h \in GlitchHeights},
                  num_strips : 1..MaxStrips,
                  max_offset : GlitchOffsets]
    /\ gl_pc = "copy" /\ gl_result = NoPixels /\ gl_strips = <<>>
    /\ gl_exc = ""
    /\ GenIdle /\ GoalIdle /\ FxIdle /\ CaIdle /\ FontIdle
    /\ ExtIdleBut("glitch")

\* result = img.copy()
GlCopy ==
    /\ gl_pc = "copy"
    /\ gl_result' = gl_in.img
    /\ gl_pc' = "loop"
    /\ UNCHANGED <<strict, gl_in, gl_strips, gl_exc, glitchRest>>

\* one iteration: y_start is drawn at either end of its range, strip_height at
\* either end of its range, offset anywhere in its range
GlStrip ==
    /\ gl_pc = "loop"
    /\ Len(gl_strips) < gl_in.num_strips
    /\ LET height == gl_in.img.size[2]
       IN IF height < glitch_margin
          THEN \* random.randint(0, height - 30): empty range
               /\ gl_exc' = "ValueError"
               /\ gl_pc' = "raised"
               /\ UNCHANGED <<gl_result, gl_strips>>
          ELSE \E y_start \in {0, height - glitch_margin},
                  strip_height \in {strip_height_min, strip_height_max},
                  off \in (-gl_in.max_offset) .. gl_in.max_offset :
                  LET r == glitch_strip(gl_in.img, gl_result, y_start,
                                        strip_height, off, strict)
                  IN /\ gl_exc' = r.exc
                     /\ gl_result' = r.result
                     /\ gl_strips' =
                          Append(gl_strips,
                                 [y_start |-> y_start,
                                  y_end |-> Min(y_start + strip_height, height),
                                  offset |-> off])
                     /\ gl_pc' = IF r.exc = "" THEN "loop" ELSE "raised"
    /\ UNCHANGED <<strict, gl_in, glitchRest>>

\* return result
GlReturn ==
    /\ gl_pc = "loop"
    /\ Len(gl_strips) = gl_in.num_strips
    /\ gl_pc' = "returned"
    /\ UNCHANGED <<strict, gl_in, gl_result, gl_strips, gl_exc, glitchRest>>

NextGlitch == GlCopy \/ GlStrip \/ GlReturn

SpecGlitch == InitGlitch /\ [][NextGlitch]_vars

-----------------------------------------------------------------------------
(* add_vignette: the mask *)

vigRest == <<strict, genVars, goalVars, fxVars, caVars, fontVars, httpVars,
             clientVars, concVars, glitchVars>>

\* steps = 50
steps == 50

\* the sizes of img: one pixel, a small canvas, and two screen sizes
VigSizes == {<<1, 1>>, <<8, 4>>, <<800, 600>>, <<1920, 1080>>}

\* strength in hundredths: 0.35 is what apply_all_effects passes, 0.4 is the
\* default
VigStrengths == {35, 40}

\* the <<c, i>> of the model for which the floating-point product
\* c * (1 + (1 - i / steps) * 0.8) falls just below the exact one, an integer
float_short_radius == {<<400, 40>>}

\* a radius that shrinks linearly to 0 at the last step
ellipse_radius_ToPoint(c, i) == (c * (steps - 1 - i)) \div (steps - 1)

\* int(c * (1 + inv_progress * 0.8)) with inv_progress = 1 - i / steps:
\* 1 + (steps - i) * 0.8 / steps = (450 - 4 * i) / 250
ellipse_radius(c, i) ==
    ((c * (450 - 4 * i)) \div 250)
        - (IF <<c, i>> \in float_short_radius THEN 1 ELSE 0)

\* int(255 * (1 - strength * (inv_progress ** 1.5))) for i = 0 .. steps - 1,
\* as the floating-point expression evaluates, for strength 0.35
brightness_035 ==
    <<165, 168, 171, 173, 176, 178, 181, 183, 186, 188,
      191, 193, 195, 198, 200, 202, 204, 207, 209, 211,
      213, 215, 217, 219, 221, 223, 225, 227, 228, 230,
      232, 234, 235, 237, 238, 240, 241, 243, 244, 245,
      247, 248, 249, 250, 251, 252, 252, 253, 254, 254>>

\* the same for strength 0.4
brightness_040 ==
    <<153, 156, 159, 162, 164, 167, 170, 173, 176, 179,
      182, 184, 187, 190, 192, 195, 197, 200, 202, 205,
      207, 209, 212, 214, 216, 218, 221, 223, 225, 227,
      229, 231, 232, 234, 236, 238, 239, 241, 243, 244,
      245, 247, 248, 249, 250, 251, 252, 253, 254, 254>>

brightness_of(strength, i) ==
    IF strength = 35 THEN brightness_035[i + 1] ELSE brightness_040[i + 1]

\* the value of the mask at <<x, y>>, a pixel of the row or of the column
\* through <<cx, cy>>: the fill of the last ellipse drawn that holds it, the
\* background when none does. An ellipse of bounding box
\* [cx - rx, cy - ry, cx + rx, cy + ry] holds <<x, cy>> iff |x - cx| <= rx and
\* <<cx, y>> iff |y - cy| <= ry.
mask_getpixel(m, x, y) ==
    LET cx == m.size[1] \div 2
        cy == m.size[2] \div 2
        holds(e) == IF y = cy THEN cx - e.rx <= x /\ x <= cx + e.rx
                    ELSE cy - e.ry <= y /\ y <= cy + e.ry
        ks == {k \in 1..Len(m.ellipses) : holds(m.ellipses[k])}
    IN IF ks = {} THEN m.background
       ELSE m.ellipses[CHOOSE k \in ks : \A j \in ks : j <= k].fill

InitVig ==
    /\ strict \in BOOLEAN
    /\ vg_in \in [size : VigSizes, strength : VigStrengths]
    /\ vg_pc = "new" /\ vg_i = 0 /\ vignette = NoMask
    /\ GenIdle /\ GoalIdle /\ FxIdle /\ CaIdle /\ FontIdle
    /\ ExtIdleBut("vignette")

\* vignette = Image.new('L', img.size, 255)
VgNew ==
    /\ vg_pc = "new"
    /\ vignette' = [size |-> vg_in.size, background |-> 255, ellipses |-> <<>>]
    /\ vg_i' = 0
    /\ vg_pc' = "loop"
    /\ UNCHANGED <<vg_in, vigRest>>

\* one iteration of for i in range(steps): draw.ellipse(..., fill=brightness)
VgEllipse ==
    /\ vg_pc = "loop"
    /\ vg_i < steps
    /\ LET cx == vg_in.size[1] \div 2
           cy == vg_in.size[2] \div 2
           rx == ellipse_radius(cx, vg_i)
           ry == ellipse_radius(cy, vg_i)
       IN vignette' =
            [vignette EXCEPT !.ellipses =
                Append(@, [rx |-> rx, ry |-> ry,
                           fill |-> brightness_of(vg_in.strength, vg_i)])]
    /\ vg_i' = vg_i + 1
    /\ UNCHANGED <<vg_in, vg_pc, vigRest>>

\* after the loop: the channels of img are multiplied by the mask, brightened
\* and merged; the mask is not drawn on again
VgApply ==
    /\ vg_pc = "loop"
    /\ vg_i = steps
    /\ vg_pc' = "returned"
    /\ UNCHANGED <<vg_in, vg_i, vignette, vigRest>>

NextVig == VgNew \/ VgEllipse \/ VgApply

SpecVig == InitVig /\ [][NextVig]_vars

-----------------------------------------------------------------------------
(* The claims *)

Terminated == pc \in {"done", "raised"}

\* the stages of a call that returned, without the optional save
FullTrace(nGoals) ==
    <<"alloc", "sky", "sun", "shapes", "trees", "grid", "title">>
    \o [k \in 1..nGoals |-> "goal"] \o <<"effects">>

\* C1: for every config with width > 0 and height > 0, generate_wallpaper
\* returns an image whose dimensions are exactly (width, height).
\* Violated: a call on a canvas up to 5 pixels high ends in draw_palm_trees
\* with IndexError and returns nothing.
C1_ReturnsImageOfResolution ==
    Terminated =>
        /\ pc = "done"
        /\ ret.mode = "RGB"
        /\ ret.size = <<cfg.width, cfg.height>>

\* What holds of C1: the canvas has the size of the resolution at every
\* stage, and so has the image of every call that returns.
CanvasKeepsResolution ==
    /\ (pc \notin {"idle", "alloc"}) => img.size = <<cfg.width, cfg.height>>
    /\ (pc = "done") => ret.size = <<cfg.width, cfg.height>>

\* C2: for every goal with target <= 0, draw_goal computes progress = 0
\* without performing the division, and draw_progress_bar draws no filled
\* column (its filled width is 0).
C2_NoTargetNoFill ==
    LET target == DictGet(g_in.goal.target, 100)
        r == g_out.r
    IN (g_out.called /\ target.t = "num" /\ target.v <= 0) =>
        /\ ~r.divided
        /\ r.progress.n = 0
        /\ r.exc # "ZeroDivisionError"
        /\ r.bar.reached
        /\ r.bar.progress_width = 0
        /\ r.bar.cols = {}
        /\ r.percent = 0

C2_Witness ==
    /\ g_out.called
    /\ g_in.goal = Goal(Num(1), Num(0))
    /\ g_in.width = 600
    /\ g_out.r.exc = ""
    /\ g_out.r.bar.reached

\* C3: for every goal with current >= target > 0, the filled portion is as
\* wide as the track, and no filled column lies outside [x, x + width].
\* Violated: the fill starts 2 columns into the track and is width columns
\* wide, so its last column is x + width + 1.
C3_FullBarInsideTrack ==
    LET current == DictGet(g_in.goal.current, 0)
        target == DictGet(g_in.goal.target, 100)
        bar == g_out.r.bar
    IN (/\ g_out.called
        /\ current.t = "num" /\ target.t = "num"
        /\ current.v >= target.v /\ target.v > 0
        /\ bar.exc = "") =>
        /\ bar.reached
        /\ bar.progress_width = bar.x1 - bar.x0
        /\ \A c \in bar.cols : bar.x0 <= c /\ c <= bar.x1

\* C4: goal i is passed to draw_goal if and only if 130 + 100 i + 100 is
\* less than half the canvas height; no goal whose slot starts below half the
\* height is drawn; the goals drawn are a prefix of the goals list.
C4_GoalsAboveHorizon ==
    LET passed == {drawn[k].index : k \in 1..Len(drawn)}
        fits(i) == 2 * (130 + 100 * i + 100) < cfg.height
        reached == IF pc = "raised" /\ drawn # <<>> /\ exc # "" /\ idx \in passed
                   THEN 0..idx ELSE 0..(idx - 1)
    IN /\ \A i \in passed : fits(i)
       /\ \A i \in reached : fits(i) => i \in passed
       /\ \A i \in passed : 2 * (130 + 100 * i) <= cfg.height
       /\ passed = 0..(Len(drawn) - 1)
       /\ \A k \in 1..Len(drawn) : drawn[k].index = k - 1
       /\ pc \in {"save", "done"} => idx = Len(cfg.goals)

C4_Witness ==
    /\ pc = "done"
    /\ cfg.height = 600
    /\ Len(cfg.goals) = 3
    /\ Len(drawn) = 1
    /\ drawn[1].index = 0

\* C5: apply_all_effects runs the enabled effects in the order color boost,
\* chromatic aberration, glitch strips, scanlines, noise, vignette: every
\* effect that runs is enabled, runs after the ones before it in this order
\* and receives what the effect run before it returned; every enabled effect
\* runs unless one before it raised.
C5_EffectsInFixedOrder ==
    LET order == <<"color_boost", "chromatic", "glitch", "scanlines", "noise",
                   "vignette">>
        rank(n) == CHOOSE k \in 1..6 : order[k] = n
        calls == fx_out.r.calls
        n == Len(calls)
    IN fx_out.called =>
        /\ \A k \in 1..n : fx_in.flags[calls[k].fn]
        /\ \A k \in 1..(n - 1) : rank(calls[k].fn) < rank(calls[k + 1].fn)
        /\ n > 0 => calls[1].arg = fx_in.img
        /\ \A k \in 2..n :
              calls[k].arg.layers
                  = Append(calls[k - 1].arg.layers, calls[k - 1].fn)
        /\ fx_out.r.exc = "" =>
              /\ {calls[k].fn : k \in 1..n} = {e \in EffectNames : fx_in.flags[e]}
              /\ fx_out.r.img.layers
                    = fx_in.img.layers \o [k \in 1..n |-> calls[k].fn]

C5_Witness ==
    /\ fx_out.called
    /\ \A e \in EffectNames : fx_in.flags[e]
    /\ fx_in.img.size = <<800, 600>>
    /\ Len(fx_out.r.calls) = 6
    /\ fx_out.r.calls[6].fn = "vignette"
    /\ fx_out.r.calls[6].arg.layers
          = <<"content", "color_boost", "chromatic", "glitch", "scanlines",
              "noise">>

\* C6: with all six flags disabled, apply_all_effects returns a canvas
\* identical to its input, for every input canvas.
C6_AllDisabledIsIdentity ==
    (fx_out.called /\ \A e \in EffectNames : ~fx_in.flags[e]) =>
        /\ fx_out.r.img = fx_in.img
        /\ fx_out.r.calls = <<>>
        /\ fx_out.r.exc = ""

C6_Witness ==
    /\ fx_out.called
    /\ \A e \in EffectNames : ~fx_in.flags[e]
    /\ fx_in.img.size = <<1, 1>>
    /\ strict

\* C7: add_chromatic_aberration with offset k, 0 <= k <= width, leaves the
\* green channel of every pixel as it was, moves the red channel k pixels to
\* the left and the blue channel k pixels to the right, and sets to 0 the k
\* rightmost red columns and the k leftmost blue columns.
C7_ChromaticShift ==
    LET in == ca_in.img
        out == ca_out.img
        k == ca_in.offset
        w == in.size[1]
    IN ca_out.called =>
        /\ out.size = in.size
        /\ DOMAIN out.px = DOMAIN in.px
        /\ \A p \in DOMAIN in.px :
              /\ out.px[p][2] = in.px[p][2]
              /\ out.px[p][1] = IF p[1] + k < w
                                THEN in.px[<<p[1] + k, p[2]>>][1] ELSE 0
              /\ out.px[p][3] = IF p[1] >= k
                                THEN in.px[<<p[1] - k, p[2]>>][3] ELSE 0
        /\ Cardinality({x \in 0..(w - 1) : x + k >= w}) = k
        /\ Cardinality({x \in 0..(w - 1) : x < k}) = k

C7_Witness ==
    /\ ca_out.called
    /\ ca_in.offset = 1
    /\ ca_in.img.size = <<3, 1>>
    /\ ca_in.img.px = (<<0, 0>> :> <<10, 20, 30>> @@ <<1, 0>> :> <<40, 50, 60>>
                       @@ <<2, 0>> :> <<10, 20, 30>>)
    /\ ca_out.img.px = (<<0, 0>> :> <<40, 20, 0>> @@ <<1, 0>> :> <<10, 50, 30>>
                        @@ <<2, 0>> :> <<0, 20, 60>>)

\* C8: for every config generate_wallpaper runs canvas allocation, sky, sun,
\* shapes, palm trees, grid, title, the goal loop and the effects, in this
\* order; the title and the five background stages run also when no goal is
\* drawn, and the effects run exactly once, after the last goal draw.
\* Violated: a call on a canvas up to 5 pixels high ends in draw_palm_trees.
C8_AllStagesInOrder ==
    Terminated =>
        LET stages == SelectSeq(trace, LAMBDA s : s # "save")
        IN stages = FullTrace(Len(drawn))

\* What holds of C8: the stages run so far are always a prefix of the full
\* order, and a call that returns has run them all, the effects once.
StagesArePrefix ==
    LET stages == SelectSeq(trace, LAMBDA s : s # "save")
        full == FullTrace(Len(drawn))
    IN /\ Len(stages) <= Len(full)
       /\ stages = SubSeq(full, 1, Len(stages))
       /\ pc = "done" => stages = full

\* C9: for every goal whose current or target is missing or not a number,
\* draw_goal does not raise and the goal is rendered with progress 0.
\* Violated: a str or null operand of "current / target" or of "target > 0"
\* raises TypeError.
C9_MalformedGoalRendersZero ==
    LET bad(f) == f.t \in {"absent", "str", "null"}
    IN (/\ g_out.called
        /\ bad(g_in.goal.current) \/ bad(g_in.goal.target)
        /\ g_in.width >= 120) =>
        /\ g_out.r.exc = ""
        /\ g_out.r.progress.n = 0
        /\ g_out.r.percent = 0

\* C10 as stated: get_font returns the first of its four candidates that
\* loads, and the built-in default font when all four fail; it always returns
\* a font and never raises.
\* Violated: when the four fail and DejaVuSans-Bold.ttf loads, that font is
\* returned, not the built-in one.
C10_BuiltinWhenCandidatesFail ==
    LET fs == font_in.fs
        r == font_out.r
        ok == {k \in 1..4 : fs[font_paths[k]] = "ok"}
    IN font_out.called =>
        /\ r.exc = ""
        /\ r.font # NoFont
        /\ ok # {} =>
              LET first == CHOOSE k \in ok : \A j \in ok : k <= j
              IN r.font = [path |-> font_paths[first], size |-> font_in.size]
        /\ ok = {} => r.font = BuiltinFont

\* C10, amended: get_font tries its four candidates in list order and returns
\* the first that loads; when all four fail it tries DejaVuSans-Bold.ttf and
\* returns it if it loads, and the built-in default font only if that fails
\* too; for every combination of font files it returns a font, never raises.
C10_FallbackThenBuiltin ==
    LET fs == font_in.fs
        r == font_out.r
        listed == <<"VCR_OSD_MONO.ttf", "PressStart2P.ttf",
                    "DejaVuSansMono-Bold.ttf", "DejaVuSansMono.ttf">>
        ok == {k \in 1..4 : fs[listed[k]] = "ok"}
    IN font_out.called =>
        /\ r.exc = ""
        /\ r.font # NoFont
        /\ ok # {} =>
              LET first == CHOOSE k \in ok : \A j \in ok : k <= j
              IN /\ r.font = [path |-> listed[first], size |-> font_in.size]
                 /\ r.tried = SubSeq(listed, 1, first)
        /\ (ok = {} /\ fs["DejaVuSans-Bold.ttf"] = "ok") =>
              /\ r.font = [path |-> "DejaVuSans-Bold.ttf", size |-> font_in.size]
              /\ r.tried = listed \o <<"DejaVuSans-Bold.ttf">>
        /\ (ok = {} /\ fs["DejaVuSans-Bold.ttf"] # "ok") =>
              /\ r.font = BuiltinFont
              /\ r.tried = listed \o <<"DejaVuSans-Bold.ttf", "load_default">>

C10_Witness ==
    /\ font_out.called
    /\ \A k \in 1..4 : font_in.fs[font_paths[k]] = "missing"
    /\ font_in.fs[fallback_font_path] = "ok"
    /\ font_out.r.font.path = fallback_font_path

-----------------------------------------------------------------------------
(* The claims on the HTTP handler *)

HandlerReturned == hpc \in {"done", "crashed"}

\* the response of an except clause, as the client reads it
ErrorResponse(code) ==
    error_headers(code) \o <<EndOfHeaders, Body("json error")>>

\* C11: a POST whose body is not a well-formed JSON configuration is answered
\* with status 400 and a JSON {error} body, and generate_wallpaper is not
\* called; for every request a success response carries Content-Type
\* image/png, and a failure response a JSON {error} body and a non-2xx status.
\* Violated: only a body that json.loads rejects is answered with 400.  Bytes
\* that are not UTF-8 and a JSON value that is not an object are answered with
\* 500, and an object whose resolution is not a pair reaches
\* generate_wallpaper.
C11_BadBodyIsClientError ==
    LET bad_body == /\ req.method = "POST"
                    /\ req.length = "ok"
                    /\ \/ req.body.kind # "object"
                       \/ req.body.resolution = "malformed"
    IN (HandlerReturned /\ conn = "open") =>
        /\ bad_body =>
              /\ statuses = <<400>>
              /\ wire = ErrorResponse(400)
              /\ gen_calls = 0
        /\ Len(statuses) = 1
        /\ statuses[1] = 200 =>
              /\ wire[2] = Header("Content-Type", "image/png")
              /\ wire[Len(wire)] = Body("png")
        /\ statuses[1] # 200 =>
              /\ statuses[1] \in 400..599
              /\ wire = ErrorResponse(statuses[1])

\* C12: when a step in the try block of do_GET or do_POST raises, the client
\* receives an error response and no image; status 200 is sent only after the
\* PNG has been encoded; the handler never sends both a 200 status and an
\* error status for one request.
\* Violated: end_headers() and wfile.write(image_data) are inside the try
\* block, so when one of them raises (the client has gone) the except clause
\* calls send_response(500) after send_response(200).
C12_OneStatusPerRequest ==
    LET codes == {statuses[k] : k \in 1..Len(statuses)}
    IN /\ 200 \in codes => image_data = "png"
       /\ ~(200 \in codes /\ codes \cap (400..599) # {})
       /\ Len(statuses) <= 1
       /\ (HandlerReturned /\ hexc # "" /\ conn = "open") =>
             /\ codes \subseteq 400..599
             /\ wire = ErrorResponse(statuses[1])

-----------------------------------------------------------------------------
(* The claims on the client *)

\* C13: in main, when the image was produced and no wallpaper-setting command
\* succeeds, the run prints a warning and does not end with a failure exit
\* status.
\* Violated: after the warning main calls sys.exit(1).
C13_SetFailureIsOnlyWarning ==
    (mpc = "exited" /\ success /\ ~args.no_set /\ set_ret = "False") =>
        /\ <<"Warning: Wallpaper generated but could not be set automatically">>
              \in {printed[k] : k \in 1..Len(printed)}
        /\ exit_status = 0

\* C20: set_wallpaper_linux runs its commands in list order; a command that is
\* not installed, times out or exits non-zero is skipped; the first command
\* that exits 0 ends the loop with True and no later command is run; False is
\* returned, after the warning, if and only if no command exits 0; a missing
\* command never aborts the sequence.
C20_FirstSuccessInListOrder ==
    LET n == Len(ran)
        out == sw_env.outcomes
        skipped == {"missing", "timeout", "nonzero"}
        warning == <<"Warning: Could not detect method to set wallpaper">>
    IN sw_pc \in {"loop", "returned", "raised"} =>
        /\ n <= Len(commands)
        /\ ran = SubSeq(commands, 1, n)
        /\ n = sw_k
        /\ \A k \in 1..(n - 1) : out[k] \in skipped
        /\ sw_pc = "loop" => (sw_ret = "none" /\ \A k \in 1..n : out[k] \in skipped)
        /\ sw_pc = "raised" => (sw_ret = "none" /\ out[n] = "oserror")
        /\ sw_pc = "returned" =>
              /\ sw_ret \in {"True", "False"}
              /\ sw_ret = "True" <=> (n >= 1 /\ out[n] = "zero")
              /\ sw_ret = "False" <=> (\A k \in 1..Len(commands) : out[k] # "zero")
              /\ sw_ret = "False" =>
                    /\ n = Len(commands)
                    /\ printed # <<>> /\ printed[Len(printed)] = warning
              /\ sw_ret = "True" => printed[Len(printed)]
                    = <<"Wallpaper set successfully using", commands[n].name>>

C20_Witness ==
    /\ sw_pc = "returned"
    /\ sw_env.desktop = "hyprland"
    /\ sw_env.outcomes = <<"missing", "nonzero", "zero">>
    /\ [k \in 1..3 |-> ran[k].name] = <<"hyprctl", "pkill", "swaybg">>
    /\ sw_ret = "True"

-----------------------------------------------------------------------------
(* The claims on concurrent calls *)

CallDone(c) == gw[c].at = Len(stage_order) + 1

-----------------------------------------------------------------------------
(* The claims on the progress value *)

C16_LabelIsClamped ==
    LET c == g_in.goal.current
        t == g_in.goal.target
        r == g_out.r
        track == g_in.width - 120
        clamped == IF t.v <= 0 \/ c.v <= 0 THEN Zero
                   ELSE IF c.v >= t.v THEN Rat(1, 1) ELSE Rat(c.v, t.v)
    IN (/\ g_out.called /\ r.exc = ""
        /\ IsNum(c) /\ IsNum(t) /\ track >= 0) =>
        /\ Cardinality(r.bar.cols) \in
              {(track * clamped.n) \div clamped.d,
               (track * clamped.n) \div clamped.d - 1}
        /\ r.percent \in 0..100
        /\ r.percent \in {(100 * clamped.n) \div clamped.d,
                          (100 * clamped.n) \div clamped.d - 1}

-----------------------------------------------------------------------------
(* The claims on the background stages *)

\* C17: for every canvas with width > 0 and height > 0, however small, each
\* background stage of generate_wallpaper (gradient sky, sun, geometric
\* shapes, palm trees, perspective grid) completes without raising.
\* Violated: on a canvas up to 5 pixels high a palm tree has trunk_height 0,
\* its points list is empty and points[-1] raises IndexError.
C17_BackgroundStagesComplete ==
    LET background == {"sky", "sun", "shapes", "trees", "grid"}
    IN /\ (cfg.width > 0 /\ cfg.height > 0 /\ pc = "raised") =>
             trace[Len(trace)] \notin background
       /\ (cfg.width > 0 /\ cfg.height > 0 /\ pc \in {"title", "goals", "save", "done"}) =>
             \A b \in background : \E k \in 1..Len(trace) : trace[k] = b

-----------------------------------------------------------------------------
(* The claims on add_glitch_strips *)

\* row y of image b is row y of image a rotated d columns to the right
RowRotated(a, b, y, d) ==
    LET w == a.size[1]
    IN \A x \in 0..(w - 1) : b.px[<<x, y>>] = a.px[<<(x - d) % w, y>>]

InStrip(y, st) == st.y_start <= y /\ y < st.y_end

-----------------------------------------------------------------------------
(* The claims on add_vignette *)

\* C19 as stated: the mask is a sequence of concentric filled ellipses whose
\* radii shrink from full size, the outermost and darkest, down to a point at
\* the centre of the canvas, and the value of the mask at that innermost point
\* is 255.
\* Violated: the innermost ellipse has radii int(1.016 * cx), int(1.016 * cy),
\* which covers the whole row and column through the centre, and its fill is
\* 254.
C19_ShrinksToPointOf255 ==
    vg_pc = "returned" =>
        LET es == vignette.ellipses
            cx == vignette.size[1] \div 2
            cy == vignette.size[2] \div 2
        IN /\ Len(es) = steps
           /\ \A k \in 2..Len(es) :
                 /\ es[k].rx <= es[k - 1].rx /\ es[k].ry <= es[k - 1].ry
                 /\ es[k].fill >= es[k - 1].fill
           /\ es[Len(es)].rx = 0 /\ es[Len(es)].ry = 0
           /\ mask_getpixel(vignette, cx, cy) = 255

\* C19, amended: the mask is a sequence of 50 concentric filled ellipses, each
\* drawn over the ones before. Their radii never grow and their fill never
\* darkens from one to the next: from int(1.8 * cx), int(1.8 * cy), the
\* outermost and darkest, down to int(1.016 * cx), int(1.016 * cy). No radius
\* is less than cx (cy), so the innermost ellipse is not a point: it holds
\* the whole row and the whole column through the centre of the canvas. The
\* value of the mask there is the fill of the innermost ellipse, which is 254
\* for strength 0.35 and for strength 0.4.
C19_ShrinksToCanvasOf254 ==
    vg_pc \in {"loop", "returned"} =>
        LET es == vignette.ellipses
            w == vignette.size[1]
            h == vignette.size[2]
            cx == w \div 2
            cy == h \div 2
        IN /\ Len(es) = vg_i
           /\ vg_pc = "returned" => Len(es) = steps
           /\ \A k \in 1..Len(es) :
                 /\ es[k].rx >= cx /\ es[k].ry >= cy
                 /\ k > 1 =>
                      /\ es[k].rx <= es[k - 1].rx /\ es[k].ry <= es[k - 1].ry
                      /\ es[k].fill >= es[k - 1].fill
           /\ Len(es) >= 1 =>
                 /\ es[1].rx = (9 * cx) \div 5 /\ es[1].ry = (9 * cy) \div 5
                 /\ es[1].fill = (255 * (100 - vg_in.strength)) \div 100
                 /\ \A x \in 0..(w - 1) :
                       mask_getpixel(vignette, x, cy) = es[Len(es)].fill
                 /\ \A y \in 0..(h - 1) :
                       mask_getpixel(vignette, cx, y) = es[Len(es)].fill
           /\ Len(es) = steps =>
                 /\ es[steps].rx = (127 * cx) \div 125
                 /\ es[steps].ry = (127 * cy) \div 125
                 /\ es[steps].fill = 254
                 /\ mask_getpixel(vignette, cx, cy) = 254

\* the call as apply_all_effects makes it, on an 800 x 600 canvas, returned:
\* the radii went from 720, 540 to 406, 304 and the centre of the mask is 254
C19_Witness ==
    /\ vg_pc = "returned"
    /\ vg_in = [size |-> <<800, 600>>, strength |-> 35]
    /\ Len(vignette.ellipses) = steps
    /\ vignette.ellipses[1] = [rx |-> 720, ry |-> 540, fill |-> 165]
    /\ vignette.ellipses[41].rx = 463
    /\ vignette.ellipses[steps] = [rx |-> 406, ry |-> 304, fill |-> 254]
    /\ mask_getpixel(vignette, 400, 300) = 254
    /\ mask_getpixel(vignette, 0, 300) = 254

-----------------------------------------------------------------------------
(* The claims on what set_wallpaper_linux reports *)

\* a command that puts the image on the desktop: every command of the list
\* but 'pkill swaybg', which only stops the running swaybg
applies_image(cmd) == cmd.name # "pkill"

\* C21 as stated: whenever set_wallpaper_linux returns True, a command that
\* applies the image has been run and exited 0, never only 'pkill swaybg', and
\* on GNOME both picture-uri and picture-uri-dark have been applied.
\* Violated: the loop returns True at the first command that exits 0, so on
\* GNOME picture-uri-dark is never run after picture-uri succeeded, and on
\* Hyprland / Wayland True is returned when 'pkill swaybg' exits 0.
C21_TrueOnlyWhenImageApplied ==
    (sw_pc = "returned" /\ sw_ret = "True") =>
        LET applied == {k \in 1..Len(ran) :
                          /\ applies_image(ran[k])
                          /\ sw_env.outcomes[k] = "zero"}
        IN /\ applied # {}
           /\ sw_env.desktop = "gnome" =>
                 \A what \in {"picture-uri", "picture-uri-dark"} :
                    \E k \in applied : ran[k] = Cmd("gsettings", what)

-----------------------------------------------------------------------------
(* The claims on the order of main *)

\* what the source called k-th by main reported
reported(k) ==
    IF made[k] = "fetch_from_api" THEN env.fetch_ok ELSE env.gen_ok

\* every source main asks, with these arguments and this environment, fails
AllSourcesFail ==
    /\ ~env.gen_ok
    /\ (args.local \/ args.api = "none") \/ ~env.fetch_ok

SourcesThenSet ==
    LET local_first == args.local \/ args.api = "none"
        calls(f) == {k \in 1..Len(made) : made[k] = f}
    IN /\ Len(made) >= 1 =>
             made[1] = IF local_first THEN "generate_locally"
                       ELSE "fetch_from_api"
       /\ local_first => calls("fetch_from_api") = {}
       /\ ~local_first =>
             /\ calls("fetch_from_api") \subseteq {1}
             /\ \A k \in calls("generate_locally") :
                   k = 2 /\ ~env.fetch_ok
       /\ Cardinality(calls("generate_locally")) <= 1
       /\ \A k \in calls("set_wallpaper") :
             /\ k = Len(made) /\ k > 1
             /\ made[k - 1] # "set_wallpaper" /\ reported(k - 1)
             /\ success
             /\ ~args.no_set
       /\ AllSourcesFail => calls("set_wallpaper") = {}
       /\ (AllSourcesFail /\ mpc = "exited") => exit_status = 1
       /\ (args.no_set /\ mpc = "exited") => calls("set_wallpaper") = {}

\* C22: main generates locally when --local is given or --api is not;
\* otherwise it fetches from the API first and generates locally only after
\* the fetch failed; set_wallpaper is called only after a fetch or a local
\* generation reported success and only without --no-set; and when every
\* source asked fails, main exits with status 1 and set_wallpaper is never
\* called.
C22_SourcesThenSet ==
    /\ []SourcesThenSet
    /\ AllSourcesFail ~> (mpc = "exited" /\ exit_status = 1)

\* --api without --local: the fetch failed, the local generation that
\* followed succeeded, and set_wallpaper was called after it
C22_Witness ==
    /\ mpc = "exited"
    /\ ~args.local /\ args.api = "url" /\ ~args.no_set
    /\ ~env.fetch_ok /\ env.gen_ok
    /\ made = <<"fetch_from_api", "generate_locally", "set_wallpaper">>

=============================================================================
